---------------------------- MODULE Spec2Model ----------------------------
(***************************************************************************)
(* A model of the wordcloud generator: the exclusion-pattern loader, the   *)
(* exclusion predicate, the two directory walks (collect_words and         *)
(* collect_languages), the word extractor and the stopword filter.         *)
(*                                                                         *)
(* Text is modelled at the level of characters: a string is a sequence of  *)
(* one-character strings, so that strip, lower, the regular expression,    *)
(* os.path.join, Path.parts, os.path.splitext and fnmatch are computed     *)
(* and not assumed.                                                        *)
(***************************************************************************)
EXTENDS Integers, Sequences, FiniteSets, Bags, TLC

VARIABLES
    pc,                 \* position of the modelled program
    \* ---- load_exclude_patterns
    exclude_file,       \* [exists |-> BOOLEAN, content |-> characters]
    lines,              \* the lines of the file still to be iterated
    patterns,           \* the list being built
    \* ---- the word extractor (the body of the try block of collect_words)
    content,            \* what f.read() returned
    file_words,         \* what re.findall returned
    \* ---- filter_stopwords
    nltk_data,          \* the English stopword lexicon NLTK would provide
    english_stopwords,
    word_counts,
    filtered_counts,
    \* ---- collect_words / collect_languages
    pipeline,           \* "words" | "languages"
    base_dir,           \* characters of the base directory's path
    exclude_patterns,   \* sequence of patterns (each a sequence of characters)
    tree,               \* the nodes present below the base directory
    unreadable,         \* files whose open()/read() raises
    stack,              \* os.walk's stack of directories still to list
    root,               \* the directory os.walk yielded last
    dirs,               \* its dirs list, after the in-place filter
    files,              \* its files still to be iterated
    words,
    files_processed,
    files_skipped,
    language_counts,
    files_by_language,
    visited_files,      \* history: files the inner loop has reached
    walked_dirs,        \* history: directories os.walk has yielded
    read_files          \* history: files read successfully, in order

loadVars == <<exclude_file, lines, patterns>>
extractVars == <<content, file_words>>
filterVars == <<nltk_data, english_stopwords, word_counts, filtered_counts>>
walkVars == <<pipeline, base_dir, exclude_patterns, tree, unreadable, stack,
              root, dirs, files, words, files_processed, files_skipped,
              language_counts, files_by_language, visited_files, walked_dirs,
              read_files>>
vars == <<pc, loadVars, extractVars, filterVars, walkVars>>

-----------------------------------------------------------------------------
(* Characters and strings *)

UpperCase == <<"A", "B", "C", "D", "E", "F", "G", "H", "I", "J", "K", "L", "M",
               "N", "O", "P", "Q", "R", "S", "T", "U", "V", "W", "X", "Y", "Z">>

LowerCase == <<"a", "b", "c", "d", "e", "f", "g", "h", "i", "j", "k", "l", "m",
               "n", "o", "p", "q", "r", "s", "t", "u", "v", "w", "x", "y", "z">>

Digits == {"0", "1", "2", "3", "4", "5", "6", "7", "8", "9"}

\* Letters outside ASCII that the model uses: "U+00E9" stands for the one
\* character e with an acute accent, which str.lower() leaves alone.
NonAsciiLetters == {"U+00E9"}

Whitespace == {" ", "\t", "\n", "\r"}

Range(s) == {s[i] : i \in DOMAIN s}

\* The class [a-zA-Z] of the regular expression.
IsAsciiLetter(c) == c \in Range(LowerCase) \cup Range(UpperCase)

\* The class \w of a str pattern: letters (ASCII or not), digits, underscore.
IsWordChar(c) == IsAsciiLetter(c) \/ c \in Digits \/ c \in NonAsciiLetters \/ c = "_"

LowerChar(c) ==
    IF c \in Range(UpperCase)
    THEN LowerCase[CHOOSE i \in DOMAIN UpperCase : UpperCase[i] = c]
    ELSE c

\* str.lower()
Lower(s) == [i \in DOMAIN s |-> LowerChar(s[i])]

RECURSIVE LStrip(_)
LStrip(s) == IF s # <<>> /\ Head(s) \in Whitespace THEN LStrip(Tail(s)) ELSE s

RECURSIVE RStrip(_)
RStrip(s) ==
    IF s # <<>> /\ s[Len(s)] \in Whitespace
    THEN RStrip(SubSeq(s, 1, Len(s) - 1))
    ELSE s

\* str.strip()
Strip(s) == RStrip(LStrip(s))

\* str.startswith / str.endswith
StartsWith(s, p) == Len(p) <= Len(s) /\ SubSeq(s, 1, Len(p)) = p
EndsWith(s, p) == Len(p) <= Len(s) /\ SubSeq(s, Len(s) - Len(p) + 1, Len(s)) = p

\* All sequences over alphabet of length at most n.
SeqsUpTo(alphabet, n) == UNION {[1..k -> alphabet] : k \in 0..n}

-----------------------------------------------------------------------------
(* load_exclude_patterns *)

\* Bound: the longest exclusion file the model reads, in characters.
MaxFileLen == 5

FileAlphabet == {"a", "#", " ", "\n"}

\* Iterating a text file: each line runs up to and including its "\n"; a last
\* line without one is yielded as it is.
RECURSIVE FileLines(_)
FileLines(text) ==
    IF text = <<>> THEN <<>>
    ELSE LET ends == {i \in DOMAIN text : text[i] = "\n"}
             cut == IF ends = {} THEN Len(text)
                    ELSE CHOOSE i \in ends : \A j \in ends : i <= j
         IN <<SubSeq(text, 1, cut)>> \o FileLines(SubSeq(text, cut + 1, Len(text)))

\* Variant: the comment test made on the line before it is stripped.
KeepLineRawComment(line) == Strip(line) # <<>> /\ ~StartsWith(line, <<"#">>)

\* The test of the loop body, on the line as read: line = line.strip();
\* if line and not line.startswith("#")
KeepLine(line) == Strip(line) # <<>> /\ ~StartsWith(Strip(line), <<"#">>)

LoadInit ==
    /\ pc = "load"
    /\ exclude_file \in [exists : BOOLEAN, content : SeqsUpTo(FileAlphabet, MaxFileLen)]
    /\ lines = <<>>
    /\ patterns = <<>>

\* os.path.exists is false: the list is returned empty.
LoadMissing ==
    /\ pc = "load"
    /\ ~exclude_file.exists
    /\ pc' = "loaded"
    /\ UNCHANGED <<loadVars, extractVars, filterVars, walkVars>>

LoadOpen ==
    /\ pc = "load"
    /\ exclude_file.exists
    /\ lines' = FileLines(exclude_file.content)
    /\ pc' = "load_loop"
    /\ UNCHANGED <<exclude_file, patterns, extractVars, filterVars, walkVars>>

LoadLineKeep ==
    /\ pc = "load_loop"
    /\ lines # <<>>
    /\ KeepLine(Head(lines))
    /\ patterns' = Append(patterns, Strip(Head(lines)))
    /\ lines' = Tail(lines)
    /\ UNCHANGED <<pc, exclude_file, extractVars, filterVars, walkVars>>

LoadLineSkip ==
    /\ pc = "load_loop"
    /\ lines # <<>>
    /\ ~KeepLine(Head(lines))
    /\ lines' = Tail(lines)
    /\ UNCHANGED <<pc, exclude_file, patterns, extractVars, filterVars, walkVars>>

LoadReturn ==
    /\ pc = "load_loop"
    /\ lines = <<>>
    /\ pc' = "loaded"
    /\ UNCHANGED <<loadVars, extractVars, filterVars, walkVars>>

LoadNext == LoadMissing \/ LoadOpen \/ LoadLineKeep \/ LoadLineSkip \/ LoadReturn

-----------------------------------------------------------------------------
(* The word extractor: content.lower() and
   re.findall(r"\b[a-zA-Z]{2,}\b", ...) *)

\* Bound: the longest file content the extractor is run on, in characters.
MaxContentLen == 4

ContentAlphabet == {"a", "B", "1", "_", " ", "U+00E9"}

\* Whether position p of s (1..Len(s)) holds a \w character; outside s, no.
WordAt(s, p) == p \in DOMAIN s /\ IsWordChar(s[p])

\* Variant: the pattern without its two \b.
NoBoundary(s, p) == TRUE

\* \b before position p of s (1..Len(s)+1): exactly one side is a \w character.
WordBoundary(s, p) == WordAt(s, p - 1) # WordAt(s, p)

\* The ends (exclusive) at which \b[a-zA-Z]{2,}\b can match starting at i.
MatchEnds(s, i) ==
    IF ~WordBoundary(s, i) THEN {}
    ELSE {j \in (i + 2)..(Len(s) + 1) :
            /\ \A k \in i..(j - 1) : IsAsciiLetter(s[k])
            /\ WordBoundary(s, j)}

\* re.findall: scan from the left; at a match (the quantifier is greedy, so
\* the longest one) take it and go on after it, else go on one character.
RECURSIVE FindAllFrom(_, _)
FindAllFrom(s, i) ==
    IF i > Len(s) THEN <<>>
    ELSE LET ends == MatchEnds(s, i)
         IN IF ends = {} THEN FindAllFrom(s, i + 1)
            ELSE LET j == CHOOSE e \in ends : \A o \in ends : o <= e
                 IN <<SubSeq(s, i, j - 1)>> \o FindAllFrom(s, j)

FindAll(s) == FindAllFrom(s, 1)

\* file_words of one file
ExtractWords(text) == FindAll(Lower(text))

ExtractInit ==
    /\ pc = "extract"
    /\ content \in SeqsUpTo(ContentAlphabet, MaxContentLen)
    /\ file_words = <<>>

ExtractFile ==
    /\ pc = "extract"
    /\ file_words' = ExtractWords(content)
    /\ pc' = "extracted"
    /\ UNCHANGED <<content, loadVars, filterVars, walkVars>>

-----------------------------------------------------------------------------
(* filter_stopwords *)

\* Bound: the largest count of one word in the tables the filter is given.
MaxCount == 2

\* The words of the tables the filter is given.
TableWords == {"the", "if", "def", "return", "foo"}

\* Words of TableWords that NLTK's English stopword list holds.
NltkEnglish == {"the", "if"}

programming_keywords ==
    { "var", "let", "const", "def", "class", "return", "import",
      "function", "if", "else", "elif", "then", "end", "do", "while",
      "for", "try", "catch", "finally", "throw", "new", "this", "self",
      "super", "true", "false", "none", "null", "undefined", "void",
      "public", "private", "protected", "static", "final", "abstract",
      "interface", "extends", "implements", "package", "namespace",
      "using", "include", "define", "ifdef", "endif", "extern", "typeof",
      "instanceof", "async", "await", "yield", "lambda", "del", "pass",
      "break", "continue", "raise", "except", "assert", "switch", "case",
      "default", "goto", "struct", "enum", "union", "typedef", "sizeof",
      "const", "volatile", "inline", "virtual" }

\* Variant: the union that the source leaves commented out.
AllStopwordsWithKeywords(english) == english \cup programming_keywords

\* all_stopwords = english_stopwords  # | programming_keywords
AllStopwords(english) == english

FilterInit ==
    /\ pc = "stopwords"
    /\ nltk_data \in SUBSET NltkEnglish
    /\ word_counts \in UNION {[W -> 1..MaxCount] : W \in SUBSET TableWords}
    /\ english_stopwords = {}
    /\ filtered_counts = <<>>

\* stopwords.words("english") answers, at once or after the download.
StopwordsLoaded ==
    /\ pc = "stopwords"
    /\ english_stopwords' = nltk_data
    /\ pc' = "filter"
    /\ UNCHANGED <<nltk_data, word_counts, filtered_counts,
                   loadVars, extractVars, walkVars>>

\* The import or the download raises: english_stopwords = set()
StopwordsUnavailable ==
    /\ pc = "stopwords"
    /\ english_stopwords' = {}
    /\ pc' = "filter"
    /\ UNCHANGED <<nltk_data, word_counts, filtered_counts,
                   loadVars, extractVars, walkVars>>

FilterStopwords ==
    /\ pc = "filter"
    /\ LET all_stopwords == AllStopwords(english_stopwords)
           kept == {w \in DOMAIN word_counts : w \notin all_stopwords}
       IN filtered_counts' = [w \in kept |-> word_counts[w]]
    /\ pc' = "filtered"
    /\ UNCHANGED <<nltk_data, english_stopwords, word_counts,
                   loadVars, extractVars, walkVars>>

FilterNext == StopwordsLoaded \/ StopwordsUnavailable \/ FilterStopwords

-----------------------------------------------------------------------------
(* Paths and the exclusion predicate *)

\* os.path.join(a, b) for a relative b
Join(a, b) ==
    IF a = <<>> \/ a[Len(a)] = "/" THEN a \o b ELSE a \o <<"/">> \o b

\* str.split("/")
RECURSIVE SplitSlash(_)
SplitSlash(path) ==
    LET seps == {i \in DOMAIN path : path[i] = "/"}
    IN IF seps = {} THEN <<path>>
       ELSE LET cut == CHOOSE i \in seps : \A j \in seps : i <= j
            IN <<SubSeq(path, 1, cut - 1)>> \o SplitSlash(SubSeq(path, cut + 1, Len(path)))

\* Path(path).parts on POSIX: the root "/" of an absolute path, then the
\* components, empty ones and "." dropped.
Parts(path) ==
    LET comps == SelectSeq(SplitSlash(path), LAMBDA c : c # <<>> /\ c # <<".">>)
    IN IF path # <<>> /\ path[1] = "/" THEN <<(<<"/">>)>> \o comps ELSE comps

\* os.path.basename(path): what follows the last "/"
Basename(path) ==
    LET seps == {i \in DOMAIN path : path[i] = "/"}
    IN IF seps = {} THEN path
       ELSE SubSeq(path, (CHOOSE i \in seps : \A j \in seps : j <= i) + 1, Len(path))

\* fnmatch(name, pat) on POSIX (normcase is the identity): "*" matches any
\* run of characters, "?" any one character, another character itself.
\* Character classes ([seq]) are not used by the patterns of the model.
RECURSIVE fnmatch(_, _)
fnmatch(name, pat) ==
    IF pat = <<>> THEN name = <<>>
    ELSE IF Head(pat) = "*"
         THEN fnmatch(name, Tail(pat)) \/ (name # <<>> /\ fnmatch(Tail(name), pat))
         ELSE /\ name # <<>>
              /\ Head(pat) = "?" \/ Head(pat) = Head(name)
              /\ fnmatch(Tail(name), Tail(pat))

\* Variant: only the parts below the base directory are matched.
should_exclude_below_base(path, pats) ==
    \E i \in DOMAIN pats :
        \E k \in DOMAIN Parts(path) :
            k > Len(Parts(base_dir)) /\ fnmatch(Parts(path)[k], pats[i])

\* Variant: only the basename is matched.
should_exclude_basename_only(path, pats) ==
    \E i \in DOMAIN pats : fnmatch(Basename(path), pats[i])

should_exclude(path, pats) ==
    \E i \in DOMAIN pats :
        \/ \E k \in DOMAIN Parts(path) : fnmatch(Parts(path)[k], pats[i])
        \/ fnmatch(Basename(path), pats[i])

-----------------------------------------------------------------------------
(* The extension tables *)

text_extensions ==
    { <<".", "p", "y">>,
      <<".", "j", "s">>,
      <<".", "t", "s">>,
      <<".", "t", "s", "x">>,
      <<".", "j", "s", "x">>,
      <<".", "j", "a", "v", "a">>,
      <<".", "g", "o">>,
      <<".", "c", "s">>,
      <<".", "c", "p", "p">>,
      <<".", "c">>,
      <<".", "h">>,
      <<".", "m", "d">>,
      <<".", "t", "x", "t">>,
      <<".", "h", "t", "m", "l">>,
      <<".", "c", "s", "s">>,
      <<".", "j", "s", "o", "n">>,
      <<".", "y", "a", "m", "l">>,
      <<".", "y", "m", "l">>,
      <<".", "s", "h">>,
      <<".", "r", "s">>,
      <<".", "r", "b">>,
      <<".", "p", "h", "p">>,
      <<".", "s", "c", "a", "l", "a">>,
      <<".", "k", "t">> }

LANGUAGE_MAP ==
    << <<<<".", "p", "y">>, "Python">>,
       <<<<".", "j", "s">>, "JavaScript">>,
       <<<<".", "t", "s">>, "TypeScript">>,
       <<<<".", "t", "s", "x">>, "TypeScript">>,
       <<<<".", "j", "s", "x">>, "JavaScript">>,
       <<<<".", "j", "a", "v", "a">>, "Java">>,
       <<<<".", "g", "o">>, "Go">>,
       <<<<".", "r", "s">>, "Rust">>,
       <<<<".", "c">>, "C">>,
       <<<<".", "c", "p", "p">>, "C++">>,
       <<<<".", "c", "c">>, "C++">>,
       <<<<".", "c", "x", "x">>, "C++">>,
       <<<<".", "h">>, "C">>,
       <<<<".", "h", "p", "p">>, "C++">>,
       <<<<".", "c", "s">>, "C#">>,
       <<<<".", "r", "b">>, "Ruby">>,
       <<<<".", "p", "h", "p">>, "PHP">>,
       <<<<".", "s", "w", "i", "f", "t">>, "Swift">>,
       <<<<".", "k", "t">>, "Kotlin">>,
       <<<<".", "s", "c", "a", "l", "a">>, "Scala">>,
       <<<<".", "r">>, "R">>,
       <<<<".", "m">>, "Objective-C">>,
       <<<<".", "s", "h">>, "Shell">>,
       <<<<".", "b", "a", "s", "h">>, "Bash">>,
       <<<<".", "p", "l">>, "Perl">>,
       <<<<".", "l", "u", "a">>, "Lua">>,
       <<<<".", "v", "i", "m">>, "VimScript">>,
       <<<<".", "e", "l">>, "Emacs-Lisp">>,
       <<<<".", "c", "l", "j">>, "Clojure">>,
       <<<<".", "e", "x">>, "Elixir">>,
       <<<<".", "e", "r", "l">>, "Erlang">>,
       <<<<".", "h", "s">>, "Haskell">>,
       <<<<".", "m", "l">>, "OCaml">>,
       <<<<".", "s", "q", "l">>, "SQL">>,
       <<<<".", "d", "o", "c", "k", "e", "r", "f", "i", "l", "e">>, "Docker">>,
       <<<<".", "t", "f">>, "Terraform">>,
       <<<<".", "y", "a", "m", "l">>, "YAML">>,
       <<<<".", "y", "m", "l">>, "YAML">>,
       <<<<".", "j", "s", "o", "n">>, "JSON">>,
       <<<<".", "x", "m", "l">>, "XML">>,
       <<<<".", "h", "t", "m", "l">>, "HTML">>,
       <<<<".", "c", "s", "s">>, "CSS">>,
       <<<<".", "s", "c", "s", "s">>, "SCSS">>,
       <<<<".", "s", "a", "s", "s">>, "Sass">>,
       <<<<".", "l", "e", "s", "s">>, "Less">>,
       <<<<".", "m", "d">>, "Markdown">>,
       <<<<".", "r", "s", "t">>, "reStructuredText">>,
       <<<<".", "t", "e", "x">>, "LaTeX">> >>

\* any(file.endswith(ext) for ext in text_extensions)
IsTextFile(file) == \E ext \in text_extensions : EndsWith(file, ext)

\* os.path.splitext(file)[1] of a file name: from the last dot on, unless only
\* dots come before it.
SplitExt(file) ==
    LET dots == {i \in DOMAIN file : file[i] = "."}
    IN IF dots = {} THEN <<>>
       ELSE LET d == CHOOSE i \in dots : \A j \in dots : j <= i
            IN IF \E k \in 1..(d - 1) : file[k] # "."
               THEN SubSeq(file, d, Len(file))
               ELSE <<>>

\* ext in LANGUAGE_MAP, LANGUAGE_MAP[ext]
InLanguageMap(ext) == \E i \in DOMAIN LANGUAGE_MAP : LANGUAGE_MAP[i][1] = ext
LanguageOf(ext) == LANGUAGE_MAP[CHOOSE i \in DOMAIN LANGUAGE_MAP : LANGUAGE_MAP[i][1] = ext][2]

-----------------------------------------------------------------------------
(* The directory trees the walks run on *)

None == -1
Base == 0

\* Every node a tree may hold: its name, its parent directory, its kind and,
\* for a file, what reading it returns.
Nodes ==
    [n \in 0..10 |->
        CASE n = 0  -> [name |-> <<>>, parent |-> None, kind |-> "dir", text |-> <<>>]
          [] n = 1  -> [name |-> <<"n", "m">>, parent |-> 0, kind |-> "dir", text |-> <<>>]
          [] n = 2  -> [name |-> <<"s", "r", "c">>, parent |-> 0, kind |-> "dir", text |-> <<>>]
          [] n = 3  -> [name |-> <<"d">>, parent |-> 1, kind |-> "dir", text |-> <<>>]
          [] n = 4  -> [name |-> <<"a", ".", "p", "y">>, parent |-> 0, kind |-> "file",
                        text |-> <<"d", "e", "f", " ", "f", "o", "o", "(", ")", ":", " ", "r", "e", "t", "u", "r", "n", " ", "f", "o", "o">>]
          [] n = 5  -> [name |-> <<"l", "i", "b", ".", "j", "s">>, parent |-> 1, kind |-> "file",
                        text |-> <<"v", "a", "r", " ", "l", "i", "b">>]
          [] n = 6  -> [name |-> <<"x", ".", "p", "y">>, parent |-> 3, kind |-> "file",
                        text |-> <<"d", "e", "e", "p">>]
          [] n = 7  -> [name |-> <<"x", ".", "g", "o">>, parent |-> 2, kind |-> "file",
                        text |-> <<"g", "o", " ", "f", "n">>]
          [] n = 8  -> [name |-> <<"y", ".", "r", "s">>, parent |-> 2, kind |-> "file",
                        text |-> <<"f", "n", " ", "g", "o">>]
          [] n = 9  -> [name |-> <<"z", ".", "u", "n", "k", "n", "o", "w", "n">>, parent |-> 2, kind |-> "file",
                        text |-> <<"z", "z">>]
          [] n = 10 -> [name |-> <<"L", ".", "J", "S">>, parent |-> 2, kind |-> "file",
                        text |-> <<"u", "p">>]]

FullTree == 0..10
GoRustTree == {0, 2, 7, 8, 9}
NodeModulesTree == {0, 1, 4, 5}
EmptyTree == {0}
Trees == {FullTree, GoRustTree, NodeModulesTree, EmptyTree}

BaseDirs == {<<"/", "h", "/", "p">>, <<"/", "n", "m", "/", "p">>}

PatternLists ==
    { <<>>,
      <<<<"n", "m">>>>,
      <<<<"*", ".", "g", "o">>>>,
      <<<<"n", "m">>, <<"*", ".", "r", "s">>>>,
      <<<<"?", ".", "p", "y">>>>,
      <<(<<"h">>)>>,
      <<(<<"d">>)>>,
      <<(<<"*">>)>> }

\* Files whose read may fail.
MayFail == {4, 7}

\* The path os.walk and os.path.join build for node n.
RECURSIVE PathOf(_)
PathOf(n) == IF n = Base THEN base_dir ELSE Join(PathOf(Nodes[n].parent), Nodes[n].name)

ChildDirs(d) == {n \in tree : Nodes[n].parent = d /\ Nodes[n].kind = "dir"}
ChildFiles(d) == {n \in tree : Nodes[n].parent = d /\ Nodes[n].kind = "file"}

\* The orders in which a directory listing may list the nodes of S.
Orders(S) == {o \in [1..Cardinality(S) -> S] : \A i, j \in DOMAIN o : o[i] = o[j] => i = j}

Reverse(s) == [i \in DOMAIN s |-> s[Len(s) + 1 - i]]

-----------------------------------------------------------------------------
(* collect_words and collect_languages *)

\* Counter(words) of main(): the bag of the words collected.
RECURSIVE Counter(_)
Counter(ws) == IF ws = <<>> THEN EmptyBag ELSE SetToBag({Head(ws)}) (+) Counter(Tail(ws))

\* Variant: the filtered list is not assigned in place, so os.walk keeps its own.
FilterDirsNotInPlace(top, ds) == ds

\* dirs[:] = [d for d in dirs if not should_exclude(os.path.join(root, d), ...)]
FilterDirs(top, ds) ==
    SelectSeq(ds, LAMBDA d : ~should_exclude(Join(PathOf(top), Nodes[d].name),
                                             exclude_patterns))

\* filepath = os.path.join(root, file), for the file the inner loop is at
filepath == Join(PathOf(root), Nodes[Head(files)].name)

WalkInit ==
    /\ pc = "walk"
    /\ pipeline \in {"words", "languages"}
    /\ base_dir \in BaseDirs
    /\ exclude_patterns \in PatternLists
    /\ tree \in Trees
    /\ unreadable \in IF pipeline = "words" THEN SUBSET (MayFail \cap tree) ELSE {{}}
    /\ stack = <<Base>>
    /\ root = None
    /\ dirs = <<>>
    /\ files = <<>>
    /\ words = <<>>
    /\ files_processed = 0
    /\ files_skipped = 0
    /\ language_counts = <<>>
    /\ files_by_language = <<>>
    /\ visited_files = {}
    /\ walked_dirs = {}
    /\ read_files = <<>>

\* os.walk pops a directory, lists it (in whatever order the file system
\* gives) and yields it; the loop body first filters dirs in place.
WalkYield ==
    /\ pc = "walk"
    /\ stack # <<>>
    /\ LET top == stack[Len(stack)]
       IN /\ root' = top
          /\ stack' = SubSeq(stack, 1, Len(stack) - 1)
          /\ walked_dirs' = walked_dirs \cup {top}
          /\ \E ds \in Orders(ChildDirs(top)) : dirs' = FilterDirs(top, ds)
          /\ \E fs \in Orders(ChildFiles(top)) : files' = fs
    /\ pc' = "files"
    /\ UNCHANGED <<pipeline, base_dir, exclude_patterns, tree, unreadable, words,
                   files_processed, files_skipped, language_counts,
                   files_by_language, visited_files, read_files,
                   loadVars, extractVars, filterVars>>

\* Variant: break in place of continue.
FileExcludedBreaks ==
    /\ pc = "files"
    /\ files # <<>>
    /\ should_exclude(filepath, exclude_patterns)
    /\ files_skipped' = files_skipped + 1
    /\ visited_files' = visited_files \cup {Head(files)}
    /\ files' = <<>>
    /\ UNCHANGED <<pc, pipeline, base_dir, exclude_patterns, tree, unreadable, stack,
                   root, dirs, words, files_processed, language_counts,
                   files_by_language, walked_dirs, read_files,
                   loadVars, extractVars, filterVars>>

\* if should_exclude(filepath, exclude_patterns): files_skipped += 1; continue
FileExcluded ==
    /\ pc = "files"
    /\ files # <<>>
    /\ should_exclude(filepath, exclude_patterns)
    /\ files_skipped' = files_skipped + 1
    /\ visited_files' = visited_files \cup {Head(files)}
    /\ files' = Tail(files)
    /\ UNCHANGED <<pc, pipeline, base_dir, exclude_patterns, tree, unreadable, stack,
                   root, dirs, words, files_processed, language_counts,
                   files_by_language, walked_dirs, read_files,
                   loadVars, extractVars, filterVars>>

\* collect_words: the file has none of the text extensions: continue
WordsNotText ==
    /\ pc = "files"
    /\ pipeline = "words"
    /\ files # <<>>
    /\ ~should_exclude(filepath, exclude_patterns)
    /\ ~IsTextFile(Nodes[Head(files)].name)
    /\ visited_files' = visited_files \cup {Head(files)}
    /\ files' = Tail(files)
    /\ UNCHANGED <<pc, pipeline, base_dir, exclude_patterns, tree, unreadable, stack,
                   root, dirs, words, files_processed, files_skipped,
                   language_counts, files_by_language, walked_dirs, read_files,
                   loadVars, extractVars, filterVars>>

\* collect_words: the try block runs to its end
WordsRead ==
    /\ pc = "files"
    /\ pipeline = "words"
    /\ files # <<>>
    /\ ~should_exclude(filepath, exclude_patterns)
    /\ IsTextFile(Nodes[Head(files)].name)
    /\ Head(files) \notin unreadable
    /\ words' = words \o ExtractWords(Nodes[Head(files)].text)
    /\ files_processed' = files_processed + 1
    /\ read_files' = Append(read_files, Head(files))
    /\ visited_files' = visited_files \cup {Head(files)}
    /\ files' = Tail(files)
    /\ UNCHANGED <<pc, pipeline, base_dir, exclude_patterns, tree, unreadable, stack,
                   root, dirs, files_skipped, language_counts, files_by_language,
                   walked_dirs, loadVars, extractVars, filterVars>>

\* Variant: the failure ends the walk.
WordsReadFailsAborts ==
    /\ pc = "files"
    /\ pipeline = "words"
    /\ files # <<>>
    /\ ~should_exclude(filepath, exclude_patterns)
    /\ IsTextFile(Nodes[Head(files)].name)
    /\ Head(files) \in unreadable
    /\ visited_files' = visited_files \cup {Head(files)}
    /\ files' = <<>>
    /\ dirs' = <<>>
    /\ stack' = <<>>
    /\ UNCHANGED <<pc, pipeline, base_dir, exclude_patterns, tree, unreadable,
                   root, words, files_processed, files_skipped,
                   language_counts, files_by_language, walked_dirs, read_files,
                   loadVars, extractVars, filterVars>>

\* collect_words: open() or read() raises; the except clause prints a warning
WordsReadFails ==
    /\ pc = "files"
    /\ pipeline = "words"
    /\ files # <<>>
    /\ ~should_exclude(filepath, exclude_patterns)
    /\ IsTextFile(Nodes[Head(files)].name)
    /\ Head(files) \in unreadable
    /\ visited_files' = visited_files \cup {Head(files)}
    /\ files' = Tail(files)
    /\ UNCHANGED <<pc, pipeline, base_dir, exclude_patterns, tree, unreadable, stack,
                   root, dirs, words, files_processed, files_skipped,
                   language_counts, files_by_language, walked_dirs, read_files,
                   loadVars, extractVars, filterVars>>

\* language_counts[language] += 1 on a Counter
Increment(counts, k) ==
    IF k \in DOMAIN counts THEN [counts EXCEPT ![k] = @ + 1] ELSE counts @@ (k :> 1)

\* if language not in files_by_language: files_by_language[language] = []
\* files_by_language[language].append(filepath)
Record(lists, k, path) ==
    IF k \in DOMAIN lists THEN [lists EXCEPT ![k] = Append(@, path)]
    ELSE lists @@ (k :> <<path>>)

\* Variant: the list of the label is set anew at every file.
LangKnownForgetsList ==
    /\ pc = "files"
    /\ pipeline = "languages"
    /\ files # <<>>
    /\ ~should_exclude(filepath, exclude_patterns)
    /\ InLanguageMap(Lower(SplitExt(Nodes[Head(files)].name)))
    /\ LET language == LanguageOf(Lower(SplitExt(Nodes[Head(files)].name)))
       IN /\ language_counts' = Increment(language_counts, language)
          /\ files_by_language' =
                [k \in DOMAIN files_by_language \cup {language} |->
                    IF k = language THEN <<filepath>> ELSE files_by_language[k]]
    /\ files_processed' = files_processed + 1
    /\ visited_files' = visited_files \cup {Head(files)}
    /\ files' = Tail(files)
    /\ UNCHANGED <<pc, pipeline, base_dir, exclude_patterns, tree, unreadable, stack,
                   root, dirs, words, files_skipped, walked_dirs, read_files,
                   loadVars, extractVars, filterVars>>

\* collect_languages: the lowercased extension is a key of LANGUAGE_MAP
LangKnown ==
    /\ pc = "files"
    /\ pipeline = "languages"
    /\ files # <<>>
    /\ ~should_exclude(filepath, exclude_patterns)
    /\ InLanguageMap(Lower(SplitExt(Nodes[Head(files)].name)))
    /\ LET language == LanguageOf(Lower(SplitExt(Nodes[Head(files)].name)))
       IN /\ language_counts' = Increment(language_counts, language)
          /\ files_by_language' = Record(files_by_language, language, filepath)
    /\ files_processed' = files_processed + 1
    /\ visited_files' = visited_files \cup {Head(files)}
    /\ files' = Tail(files)
    /\ UNCHANGED <<pc, pipeline, base_dir, exclude_patterns, tree, unreadable, stack,
                   root, dirs, words, files_skipped, walked_dirs, read_files,
                   loadVars, extractVars, filterVars>>

\* Variant: a file of no known language is counted as skipped.
LangUnknownCountsSkipped ==
    /\ pc = "files"
    /\ pipeline = "languages"
    /\ files # <<>>
    /\ ~should_exclude(filepath, exclude_patterns)
    /\ ~InLanguageMap(Lower(SplitExt(Nodes[Head(files)].name)))
    /\ files_skipped' = files_skipped + 1
    /\ visited_files' = visited_files \cup {Head(files)}
    /\ files' = Tail(files)
    /\ UNCHANGED <<pc, pipeline, base_dir, exclude_patterns, tree, unreadable, stack,
                   root, dirs, words, files_processed,
                   language_counts, files_by_language, walked_dirs, read_files,
                   loadVars, extractVars, filterVars>>

\* collect_languages: the extension is not a key: nothing is done
LangUnknown ==
    /\ pc = "files"
    /\ pipeline = "languages"
    /\ files # <<>>
    /\ ~should_exclude(filepath, exclude_patterns)
    /\ ~InLanguageMap(Lower(SplitExt(Nodes[Head(files)].name)))
    /\ visited_files' = visited_files \cup {Head(files)}
    /\ files' = Tail(files)
    /\ UNCHANGED <<pc, pipeline, base_dir, exclude_patterns, tree, unreadable, stack,
                   root, dirs, words, files_processed, files_skipped,
                   language_counts, files_by_language, walked_dirs, read_files,
                   loadVars, extractVars, filterVars>>

\* The inner loop is over: os.walk resumes and pushes what is left of dirs,
\* reversed, so that the first is popped first.
WalkResume ==
    /\ pc = "files"
    /\ files = <<>>
    /\ stack' = stack \o Reverse(dirs)
    /\ dirs' = <<>>
    /\ pc' = "walk"
    /\ UNCHANGED <<pipeline, base_dir, exclude_patterns, tree, unreadable, root,
                   files, words, files_processed, files_skipped, language_counts,
                   files_by_language, visited_files, walked_dirs, read_files,
                   loadVars, extractVars, filterVars>>

\* The stack is empty: the totals are printed and the function returns.
WalkReturn ==
    /\ pc = "walk"
    /\ stack = <<>>
    /\ pc' = "done"
    /\ UNCHANGED <<walkVars, loadVars, extractVars, filterVars>>

WalkNext ==
    \/ WalkYield
    \/ FileExcluded
    \/ WordsNotText
    \/ WordsRead
    \/ WordsReadFails
    \/ LangKnown
    \/ LangUnknown
    \/ WalkResume
    \/ WalkReturn

-----------------------------------------------------------------------------
(* The specifications *)

LoadIdle == exclude_file = [exists |-> FALSE, content |-> <<>>] /\ lines = <<>> /\ patterns = <<>>

ExtractIdle == content = <<>> /\ file_words = <<>>

FilterIdle ==
    /\ nltk_data = {}
    /\ english_stopwords = {}
    /\ word_counts = <<>>
    /\ filtered_counts = <<>>

WalkIdle ==
    /\ pipeline = "none"
    /\ base_dir = <<>>
    /\ exclude_patterns = <<>>
    /\ tree = {}
    /\ unreadable = {}
    /\ stack = <<>>
    /\ root = None
    /\ dirs = <<>>
    /\ files = <<>>
    /\ words = <<>>
    /\ files_processed = 0
    /\ files_skipped = 0
    /\ language_counts = <<>>
    /\ files_by_language = <<>>
    /\ visited_files = {}
    /\ walked_dirs = {}
    /\ read_files = <<>>

\* The two walks, over every tree, base directory and pattern list of the model.
Init == WalkInit /\ LoadIdle /\ ExtractIdle /\ FilterIdle
Next == WalkNext
Spec == Init /\ [][Next]_vars

\* load_exclude_patterns on every file of the model.
InitLoad == LoadInit /\ ExtractIdle /\ FilterIdle /\ WalkIdle
SpecLoad == InitLoad /\ [][LoadNext]_vars

\* The extractor on every content of the model.
InitExtract == ExtractInit /\ LoadIdle /\ FilterIdle /\ WalkIdle
SpecExtract == InitExtract /\ [][ExtractFile]_vars

\* filter_stopwords on every table of the model.
InitFilter == FilterInit /\ LoadIdle /\ ExtractIdle /\ WalkIdle
SpecFilter == InitFilter /\ [][FilterNext]_vars

-----------------------------------------------------------------------------
(* What the claims are stated with: the trees and texts described without
   the program's string handling *)

\* The segments of each base directory of the model.
BaseSegments ==
    IF base_dir = <<"/", "h", "/", "p">> THEN {<<"/">>, <<"h">>, <<"p">>}
    ELSE IF base_dir = <<"/", "n", "m", "/", "p">> THEN {<<"/">>, <<"n", "m">>, <<"p">>}
    ELSE {}

\* The directories above node n, the base directory included.
RECURSIVE Above(_)
Above(n) == IF n = Base THEN {} ELSE {Nodes[n].parent} \cup Above(Nodes[n].parent)

\* The nodes of the tree below directory d, at any depth.
Beneath(d) == {n \in tree : d \in Above(n)}

\* The segments of node n's path: those of the base directory, the names of
\* the directories between the base and n, and n's own name.
SegmentsOf(n) ==
    BaseSegments \cup {Nodes[m].name : m \in (Above(n) \cup {n}) \ {Base}}

SomePatternMatches(segs) ==
    \E i \in DOMAIN exclude_patterns : \E seg \in segs : fnmatch(seg, exclude_patterns[i])

\* Node n is excluded: a segment of its path (its own name is the last)
\* matches a pattern.
Excluded(n) == SomePatternMatches(SegmentsOf(n))

TreeDirs == {n \in tree : Nodes[n].kind = "dir"}
TreeFiles == {n \in tree : Nodes[n].kind = "file"}

\* The files of directories the walk is to list: no directory between the
\* base and the file is excluded.
Reached == {f \in TreeFiles : \A d \in Above(f) \ {Base} : ~Excluded(d)}

\* The files collect_words is to read.
Candidates == {f \in Reached : ~Excluded(f) /\ IsTextFile(Nodes[f].name)}

\* The files collect_languages is to count.
Counted == {f \in Reached : ~Excluded(f) /\ InLanguageMap(Lower(SplitExt(Nodes[f].name)))}

RECURSIVE WordTableOf(_)
WordTableOf(F) ==
    IF F = {} THEN EmptyBag
    ELSE LET f == CHOOSE x \in F : TRUE
         IN Counter(ExtractWords(Nodes[f].text)) (+) WordTableOf(F \ {f})

LabelOf(f) == LanguageOf(Lower(SplitExt(Nodes[f].name)))

LanguageTableOf(F) ==
    [l \in {LabelOf(f) : f \in F} |-> Cardinality({f \in F : LabelOf(f) = l})]

RECURSIVE FlatWords(_)
FlatWords(fs) ==
    IF fs = <<>> THEN <<>>
    ELSE ExtractWords(Nodes[Head(fs)].text) \o FlatWords(Tail(fs))

RECURSIVE SumOver(_, _)
SumOver(f, D) ==
    IF D = {} THEN 0
    ELSE LET k == CHOOSE x \in D : TRUE IN f[k] + SumOver(f, D \ {k})

RecordedPaths == UNION {Range(files_by_language[l]) : l \in DOMAIN files_by_language}

Walking == pc \in {"walk", "files", "done"}

-----------------------------------------------------------------------------
(* C1 *)

\* C1: in both pipelines, a directory below the base directory that the
\* exclusion predicate excludes is never descended into (never yielded by the
\* walk, never pushed), and no node beneath it is ever visited, read or
\* recorded; the words, the language counts and both counters account only
\* for files the inner loop has reached.
C1_PrunedNeverVisited ==
    Walking =>
        /\ \A d \in TreeDirs \ {Base} :
              Excluded(d) =>
                /\ d \notin walked_dirs \cup Range(stack) \cup Range(dirs)
                /\ \A n \in Beneath(d) :
                      /\ n \notin visited_files \cup walked_dirs
                      /\ n \notin Range(files) \cup Range(read_files) \cup Range(stack)
                      /\ PathOf(n) \notin RecordedPaths
        /\ words = FlatWords(read_files)
        /\ Range(read_files) \subseteq visited_files
        /\ RecordedPaths \subseteq {PathOf(f) : f \in visited_files}
        /\ files_processed + files_skipped <= Cardinality(visited_files)

\* The walk is over, it has processed some file, and an excluded directory
\* that holds a file was in the tree.
C1_Witness ==
    /\ pc = "done"
    /\ files_processed > 0
    /\ \E d \in TreeDirs \ {Base} : Excluded(d) /\ Beneath(d) \cap TreeFiles # {}

-----------------------------------------------------------------------------
(* C2 *)

\* C2: when the inner loop is at a file one of whose path segments (its
\* basename is the last) matches a pattern, the step that handles the file
\* adds one to files_skipped and leaves files_processed, the words, the
\* language counts and the recorded paths as they are, whatever the
\* extension of the file.
C2_ExcludedFileSkipped ==
    [][(pc = "files" /\ files # <<>> /\ Excluded(Head(files))) =>
          /\ files_skipped' = files_skipped + 1
          /\ files_processed' = files_processed
          /\ words' = words
          /\ language_counts' = language_counts
          /\ files_by_language' = files_by_language
          /\ Head(files) \in visited_files']_vars

\* A file with a text extension and a language was skipped for a pattern
\* while another file was processed.
C2_Witness ==
    /\ Walking
    /\ files_processed > 0
    /\ \E f \in visited_files :
          /\ Excluded(f)
          /\ IsTextFile(Nodes[f].name)
          /\ InLanguageMap(Lower(SplitExt(Nodes[f].name)))
          /\ files_skipped > 0

-----------------------------------------------------------------------------
(* C5 *)

\* C5: in collect_languages, the step that handles a file that is not
\* excluded adds one to the count of the mapped label and to files_processed
\* when the lowercased extension is a key of LANGUAGE_MAP, and otherwise
\* changes neither the counts nor either counter; and the tree x.go, y.rs,
\* z.unknown with no pattern ends with {Go: 1, Rust: 1}, 2 processed and 0
\* skipped.
C5_LanguageCounting ==
    /\ [][(pipeline = "languages" /\ pc = "files" /\ files # <<>>
            /\ ~Excluded(Head(files))) =>
            LET ext == Lower(SplitExt(Nodes[Head(files)].name))
            IN IF InLanguageMap(ext)
               THEN /\ DOMAIN language_counts' = DOMAIN language_counts \cup {LanguageOf(ext)}
                    /\ \A l \in DOMAIN language_counts' :
                          language_counts'[l] =
                              (IF l \in DOMAIN language_counts THEN language_counts[l] ELSE 0)
                              + (IF l = LanguageOf(ext) THEN 1 ELSE 0)
                    /\ files_processed' = files_processed + 1
                    /\ files_skipped' = files_skipped
               ELSE /\ language_counts' = language_counts
                    /\ files_processed' = files_processed
                    /\ files_skipped' = files_skipped]_vars
    /\ [](pc = "done" /\ pipeline = "languages" /\ tree = GoRustTree
            /\ exclude_patterns = <<>> =>
                /\ language_counts = ("Go" :> 1) @@ ("Rust" :> 1)
                /\ files_processed = 2
                /\ files_skipped = 0)

\* The walk of the tree x.go, y.rs, z.unknown is over: all three were
\* reached and two were counted.
C5_Witness ==
    /\ pc = "done"
    /\ pipeline = "languages"
    /\ tree = GoRustTree
    /\ exclude_patterns = <<>>
    /\ visited_files = {7, 8, 9}
    /\ DOMAIN language_counts = {"Go", "Rust"}

-----------------------------------------------------------------------------
(* C6 *)

\* C6: in collect_words, the step in which reading a candidate file fails
\* changes neither the words nor either counter and leaves the walk where it
\* was, at the next file; and at the end the table of the words and the
\* counters are those of the tree without the failing files.
C6_ReadFailureIsLocal ==
    /\ [][(pipeline = "words" /\ pc = "files" /\ files # <<>>
            /\ Head(files) \in Candidates \cap unreadable) =>
            /\ words' = words
            /\ files_processed' = files_processed
            /\ files_skipped' = files_skipped
            /\ pc' = "files"
            /\ files' = Tail(files)
            /\ stack' = stack
            /\ dirs' = dirs]_vars
    /\ [](pc = "done" /\ pipeline = "words" =>
            /\ Counter(words) = WordTableOf(Candidates \ unreadable)
            /\ files_processed = Cardinality(Candidates \ unreadable)
            /\ files_skipped = Cardinality({f \in Reached : Excluded(f)}))

\* The walk is over, a candidate file failed to be read, and files were read
\* before and after it was reached.
C6_Witness ==
    /\ pc = "done"
    /\ pipeline = "words"
    /\ visited_files \cap Candidates \cap unreadable # {}
    /\ Len(read_files) >= 2

-----------------------------------------------------------------------------
(* C7 *)

\* C7: whatever order the directories and the files were listed in, each
\* pipeline ends with the table and the counters that the tree, the base
\* directory, the patterns and the unreadable files determine.
C7_OrderIndependent ==
    pc = "done" =>
        /\ files_skipped = Cardinality({f \in Reached : Excluded(f)})
        /\ pipeline = "words" =>
              /\ Counter(words) = WordTableOf(Candidates \ unreadable)
              /\ files_processed = Cardinality(Candidates \ unreadable)
        /\ pipeline = "languages" =>
              /\ language_counts = LanguageTableOf(Counted)
              /\ files_processed = Cardinality(Counted)

\* A walk that read two files in the reverse of the order of their numbers
\* is over: the listing orders do differ.
C7_Witness ==
    /\ pc = "done"
    /\ files_skipped > 0
    /\ \E i, j \in DOMAIN read_files : i < j /\ read_files[i] > read_files[j]

-----------------------------------------------------------------------------
(* C9 *)

\* C9: throughout collect_languages, files_processed is the sum of the
\* language counts and the number of paths recorded; every label's count is
\* the length of its list of paths; and no path is recorded twice.
C9_LanguageBookkeeping ==
    pipeline = "languages" =>
        /\ DOMAIN language_counts = DOMAIN files_by_language
        /\ \A l \in DOMAIN language_counts :
              language_counts[l] = Len(files_by_language[l])
        /\ files_processed = SumOver(language_counts, DOMAIN language_counts)
        /\ files_processed = Cardinality(RecordedPaths)
        /\ \A l \in DOMAIN files_by_language :
              \A i, j \in DOMAIN files_by_language[l] :
                  files_by_language[l][i] = files_by_language[l][j] => i = j

\* A label has been counted twice and another label once.
C9_Witness ==
    /\ pipeline = "languages"
    /\ pc = "done"
    /\ files_processed >= 3
    /\ \E l \in DOMAIN language_counts : language_counts[l] >= 2

-----------------------------------------------------------------------------
(* C10 *)

\* C10: when a segment of the base directory's own path matches a pattern,
\* no directory but the base is ever yielded, only the files directly in the
\* base are reached and each of them is counted as skipped, nothing is
\* processed and the table stays empty; the base directory itself is walked
\* in every run.
C10_BaseSegmentsMatch ==
    Walking =>
        /\ pc = "done" => Base \in walked_dirs
        /\ SomePatternMatches(BaseSegments) =>
              /\ walked_dirs \subseteq {Base}
              /\ visited_files \subseteq ChildFiles(Base)
              /\ files_skipped = Cardinality(visited_files)
              /\ files_processed = 0
              /\ words = <<>>
              /\ language_counts = <<>>
              /\ pc = "done" => visited_files = ChildFiles(Base)

\* The walk of a tree with a subdirectory and a file in the base is over,
\* under a pattern that matches a segment of the base directory and not the
\* name of the file or of the subdirectory.
C10_Witness ==
    /\ pc = "done"
    /\ SomePatternMatches(BaseSegments)
    /\ ~SomePatternMatches({Nodes[n].name : n \in tree \ {Base}})
    /\ ChildDirs(Base) # {}
    /\ files_skipped > 0

-----------------------------------------------------------------------------
(* C3 *)

\* The runs of ASCII letters of s that no letter precedes or follows and that
\* are at least two letters long, as pairs of their first and last position.
MaximalRuns(s) ==
    {r \in (DOMAIN s) \X (DOMAIN s) :
        /\ r[2] >= r[1] + 1
        /\ \A k \in r[1]..r[2] : IsAsciiLetter(s[k])
        /\ r[1] = 1 \/ ~IsAsciiLetter(s[r[1] - 1])
        /\ r[2] = Len(s) \/ ~IsAsciiLetter(s[r[2] + 1])}

\* Those among them that no digit, underscore or other letter touches.
DelimitedRuns(s) ==
    {r \in MaximalRuns(s) :
        /\ r[1] = 1 \/ ~IsWordChar(s[r[1] - 1])
        /\ r[2] = Len(s) \/ ~IsWordChar(s[r[2] + 1])}

\* The runs of R in s, as words, in the order of their appearance.
RECURSIVE RunsInOrder(_, _)
RunsInOrder(s, R) ==
    IF R = {} THEN <<>>
    ELSE LET first == CHOOSE r \in R : \A o \in R : r[1] <= o[1]
         IN <<SubSeq(s, first[1], first[2])>> \o RunsInOrder(s, R \ {first})

-----------------------------------------------------------------------------
(* C4 *)

-----------------------------------------------------------------------------
(* C8 *)

\* The positions at which the lines of text start.
LineStarts(text) ==
    {i \in DOMAIN text : i = 1 \/ text[i - 1] = "\n"}

\* The line of text that starts at position i, without its newline.
LineFrom(text, i) ==
    LET stops == {j \in i..Len(text) : text[j] = "\n"}
    IN IF stops = {} THEN SubSeq(text, i, Len(text))
       ELSE SubSeq(text, i, (CHOOSE j \in stops : \A o \in stops : j <= o) - 1)

\* Line l from its first to its last character that is not whitespace.
Stripped(l) ==
    LET ink == {i \in DOMAIN l : l[i] \notin Whitespace}
    IN IF ink = {} THEN <<>>
       ELSE SubSeq(l, CHOOSE i \in ink : \A o \in ink : i <= o,
                      CHOOSE i \in ink : \A o \in ink : o <= i)

RECURSIVE PatternsFrom(_, _)
PatternsFrom(text, starts) ==
    IF starts = {} THEN <<>>
    ELSE LET i == CHOOSE x \in starts : \A o \in starts : x <= o
             l == Stripped(LineFrom(text, i))
         IN (IF l # <<>> /\ l[1] # "#" THEN <<l>> ELSE <<>>)
            \o PatternsFrom(text, starts \ {i})

\* C8: load_exclude_patterns returns the empty list when the file does not
\* exist, and otherwise the stripped lines of the file that are not empty
\* and do not start with "#", in the order of the file, duplicates kept.
C8_LoadedPatterns ==
    pc = "loaded" =>
        patterns = IF exclude_file.exists
                   THEN PatternsFrom(exclude_file.content,
                                     LineStarts(exclude_file.content))
                   ELSE <<>>

\* A file with a comment line between two equal patterns was loaded.
C8_Witness ==
    /\ pc = "loaded"
    /\ exclude_file.exists
    /\ exclude_file.content = <<"a", "\n", "#", "\n", "a">>
    /\ patterns = <<(<<"a">>), (<<"a">>)>>

=============================================================================
